---- MODULE Spec2Model ----
(***************************************************************************)
(* Model of the bilingual portfolio frontend: the request router (proxy),  *)
(* the locale layout and home page, the two backend proxy endpoints, the   *)
(* language switcher and the chat panel.                                   *)
(*                                                                         *)
(* Strings the code takes apart (pathnames, the chat input) are sequences  *)
(* of one-character strings; strings the code only carries around (the     *)
(* query string, message ids) are TLA+ strings.                            *)
(***************************************************************************)
EXTENDS Integers, Sequences, FiniteSets, TLC

VARIABLES
    \* ---- request router, locale layout, page ----
    origUrl,      \* the URL the client first asked for
    reqUrl,       \* the URL of the request the router is looking at
    rtPc,         \* "request" | "routed" | "layout" | "page"
    routerOut,    \* what proxy() returned for reqUrl
    layoutOut,    \* what LocaleLayout did
    pageOut,      \* what HomePage did
    hops,         \* redirects followed so far
    \* ---- backend proxy endpoints (GET /api/health, POST /api/chat) ----
    pxEndpoint,   \* "none" | "health" | "chat": the handler that is running
    pxPc,         \* "idle" | "awaitRequestJson" | "awaitFetch" | "awaitJson" | "done"
    pxRequest,    \* body of the incoming request (chat)
    pxSent,       \* body of the outbound request (chat)
    pxBackend,    \* how the outbound call settled
    pxResponse,   \* the response the handler returned
    pxOutbound,   \* outbound requests issued by this invocation
    pxResponses,  \* responses produced by this invocation
    pxServed,     \* invocations completed before this one
    pxPrev,       \* the response of the previous invocation
    \* ---- language switcher ----
    swPathname,   \* the pathname handed to swapLocale
    swTarget,     \* the locale handed to swapLocale (nextLocale)
    swHref,       \* what swapLocale returned
    swPc,         \* "ready" | "swapped"
    swSwaps,      \* navigations through the switcher link so far
    \* ---- chat panel (ChatScene) ----
    chMounted,    \* the component is mounted
    messages,     \* useState: the message log
    input,        \* useState: the text of the input field
    isProcessing, \* useState
    typingText,   \* useState: the revealed part of the reply
    typingId,     \* useState: id of the message being revealed, or NullId
    booted,       \* useState
    metrics,      \* useState: the live metrics
    pendingTextRef, \* useRef: the full text the typewriter reveals
    bootTimers,   \* indices of the boot timeouts still pending
    cancelled,    \* the boot effect's cancelled flag
    fetchCh,      \* the fetch("/api/chat") calls in flight, oldest first
    netCalls,     \* fetch("/api/chat") calls issued so far
    typeFull,     \* typewriter effect: its fullText
    typeIdx,      \* typewriter effect: its idx
    typeInterval, \* typewriter effect: its interval is running
    typeEffect,   \* typingId was committed, the typewriter effect has to run
    lastSend,     \* outcome of the last handleSend call
    clock,        \* Date.now()
    uptime,       \* useState: seconds since mount
    isDisconnecting, \* useState
    disconnectTimers, \* pending timeouts of handleDisconnect
    navigations,  \* router.push calls made by the chat panel
    \* ---- locale registry and dictionary loader ----
    locCandidate, \* the string handed to isLocale
    locResult,    \* what isLocale returned
    locPc,        \* "ready" | "done"
    moduleCache,  \* module system: bundle -> "absent" | "loading" | "loaded"
    bundleLoads,  \* bundle -> times the module system loaded it
    dictPending,  \* getDictionary calls awaiting their import, oldest first
    dictReturned, \* the last getDictionary call that resolved and its result
    dictCalls,    \* getDictionary calls made so far
    \* ---- contact scene and CV modal ----
    ctMounted,    \* the contact scene (and the modal in it) is mounted
    cvOpen,       \* useState
    copied,       \* useState
    exiting,      \* useState
    ctRenders,    \* renders so far: each one makes a new onClose / handleKey
    listeners,    \* keydown listeners attached to document (by render)
    effectKey,    \* the handleKey the last run of the modal's effect saw
    bodyOverflow, \* document.body.style.overflow
    copyPending,  \* clipboard writes of handleCopy not settled yet
    copyTimers,   \* pending timeouts of handleCopy
    terminateTimers, \* pending timeouts of handleTerminate
    ctNavigations, \* router.push calls made by the contact scene
    ctClicks,     \* clicks on the copy and terminate buttons so far
    lastClose,    \* how the modal was last closed
    \* ---- backend status widget ----
    bsMounted,    \* the widget is mounted
    bsState,      \* useState: "loading" | "ok" | "error"
    bsRuns,       \* runs of the effect: its cancelled flag and its call
    bsSets        \* setState calls made so far

routerVars == <<origUrl, reqUrl, rtPc, routerOut, layoutOut, pageOut, hops>>

proxyVars ==
    <<pxEndpoint, pxPc, pxRequest, pxSent, pxBackend, pxResponse, pxOutbound,
      pxResponses, pxServed, pxPrev>>

swapVars == <<swPathname, swTarget, swHref, swPc, swSwaps>>

chatVars ==
    <<chMounted, messages, input, isProcessing, typingText, typingId, booted,
      metrics, pendingTextRef, bootTimers, cancelled, fetchCh, netCalls,
      typeFull, typeIdx, typeInterval, typeEffect, lastSend, clock, uptime,
      isDisconnecting, disconnectTimers, navigations>>

i18nVars ==
    <<locCandidate, locResult, locPc, moduleCache, bundleLoads, dictPending,
      dictReturned, dictCalls>>

contactVars ==
    <<ctMounted, cvOpen, copied, exiting, ctRenders, listeners, effectKey,
      bodyOverflow, copyPending, copyTimers, terminateTimers, ctNavigations,
      ctClicks, lastClose>>

statusVars == <<bsMounted, bsState, bsRuns, bsSets>>

vars ==
    <<routerVars, proxyVars, swapVars, chatVars, i18nVars, contactVars,
      statusVars>>

notRouterVars ==
    <<proxyVars, swapVars, chatVars, i18nVars,
      contactVars, statusVars>>
notProxyVars ==
    <<routerVars, swapVars, chatVars, i18nVars,
      contactVars, statusVars>>
notSwapVars ==
    <<routerVars, proxyVars, chatVars, i18nVars,
      contactVars, statusVars>>
notChatVars ==
    <<routerVars, proxyVars, swapVars, i18nVars,
      contactVars, statusVars>>
notI18nVars ==
    <<routerVars, proxyVars, swapVars, chatVars,
      contactVars, statusVars>>
notContactVars ==
    <<routerVars, proxyVars, swapVars, chatVars,
      i18nVars, statusVars>>
notStatusVars ==
    <<routerVars, proxyVars, swapVars, chatVars,
      i18nVars, contactVars>>

(***************************************************************************)
(* Bounds                                                                  *)
(***************************************************************************)
MaxChunks == 3     \* chunks appended to "/" to build a request pathname
MaxHops == 2       \* redirects a client follows before the model stops it
MaxInvocations == 2 \* invocations of the proxy endpoints after the first
MaxSwapChunks == 5 \* chunks appended to "/" to build a switcher pathname
MaxSwaps == 2      \* navigations through the language switcher link
MaxSends == 2      \* submissions the chat panel accepts
MaxUptime == 2     \* ticks of the uptime interval
MaxDisconnects == 2 \* clicks on the disconnect buttons
MaxRenders == 4    \* renders of the contact scene
MaxCandidateLen == 3 \* characters of a string handed to isLocale
MaxDictCalls == 4  \* calls of getDictionary
MaxClicks == 2     \* clicks on the copy and terminate buttons

(***************************************************************************)
(* String helpers (JavaScript semantics)                                   *)
(***************************************************************************)
Str_fr == <<"f", "r">>
Str_en == <<"e", "n">>
Str_slash == <<"/">>
Str_next == <<"/", "_", "n", "e", "x", "t">>
Str_api == <<"/", "a", "p", "i">>

\* String.prototype.startsWith
StartsWith(s, pre) ==
    /\ Len(s) >= Len(pre)
    /\ SubSeq(s, 1, Len(pre)) = pre

\* s.split("/"): the pieces between the separators, empty pieces included
RECURSIVE SplitFrom(_, _, _)
SplitFrom(s, i, cur) ==
    IF i > Len(s) THEN <<cur>>
    ELSE IF s[i] = "/" THEN <<cur>> \o SplitFrom(s, i + 1, <<>>)
    ELSE SplitFrom(s, i + 1, Append(cur, s[i]))

Split(s) == SplitFrom(s, 1, <<>>)

\* .filter(Boolean) on an array of strings: the empty string is falsy
FilterBoolean(parts) == SelectSeq(parts, LAMBDA x : x # <<>>)

\* parts.join("/")
RECURSIVE Join(_)
Join(parts) ==
    IF Len(parts) = 0 THEN <<>>
    ELSE IF Len(parts) = 1 THEN parts[1]
    ELSE parts[1] \o Str_slash \o Join(Tail(parts))

\* Array.prototype.includes
Includes(arr, x) == \E i \in DOMAIN arr : arr[i] = x

(***************************************************************************)
(* Locale registry                                                         *)
(***************************************************************************)
SUPPORTED_LOCALES == <<Str_fr, Str_en>>

\* String.prototype.toLowerCase on the letters a candidate is made of
ToLowerCase(t) ==
    [i \in DOMAIN t |->
        IF t[i] = "F" THEN "f" ELSE IF t[i] = "R" THEN "r" ELSE t[i]]

\* mutant: the candidate is lower-cased before the lookup
isLocaleAnyCase(value) == Includes(SUPPORTED_LOCALES, ToLowerCase(value))

isLocale(value) == Includes(SUPPORTED_LOCALES, value)

(***************************************************************************)
(* Request router                                                          *)
(***************************************************************************)
\* PUBLIC_FILE = /\.[^/]+$/ : a dot, then one or more non-slash characters
\* up to the end of the string
PUBLIC_FILE_test(s) ==
    \E i \in 1..Len(s) :
        /\ s[i] = "."
        /\ i < Len(s)
        /\ \A j \in (i + 1)..Len(s) : s[j] # "/"

\* config.matcher = "/((?!_next/static|_next/image|favicon.ico).*)": the
\* router is invoked for a path unless what follows its leading "/" begins
\* with one of the three alternatives (the "." of favicon.ico is a regular
\* expression dot: any character)
Matcher(pathname) ==
    LET rest == SubSeq(pathname, 2, Len(pathname))
    IN  ~ \/ StartsWith(rest, <<"_", "n", "e", "x", "t", "/",
                                "s", "t", "a", "t", "i", "c">>)
          \/ StartsWith(rest, <<"_", "n", "e", "x", "t", "/",
                                "i", "m", "a", "g", "e">>)
          \/ /\ Len(rest) >= 11
             /\ SubSeq(rest, 1, 7) = <<"f", "a", "v", "i", "c", "o", "n">>
             /\ SubSeq(rest, 9, 11) = <<"i", "c", "o">>

\* no router response: the matcher did not select the request
Unmatched == [kind |-> "unmatched", url |-> [pathname |-> <<>>, search |-> ""]]

ResponseNext == [kind |-> "next", url |-> [pathname |-> <<>>, search |-> ""]]
NoResponse == [kind |-> "none", url |-> [pathname |-> <<>>, search |-> ""]]

\* request.nextUrl.clone(); url.pathname = p; NextResponse.redirect(url)
Redirect(request, p) ==
    [kind |-> "redirect", url |-> [request EXCEPT !.pathname = p]]

\* mutant: the redirect target is the locale root, the requested path is lost
proxyDropsPath(request) ==
    LET pathname == request.pathname
        parts == FilterBoolean(Split(pathname))
        hasLocale == Len(parts) > 0 /\ Includes(SUPPORTED_LOCALES, parts[1])
    IN  IF \/ StartsWith(pathname, Str_next)
           \/ StartsWith(pathname, Str_api)
           \/ PUBLIC_FILE_test(pathname)
        THEN ResponseNext
        ELSE IF pathname = Str_slash
        THEN Redirect(request, Str_slash \o Str_fr)
        ELSE IF ~hasLocale
        THEN Redirect(request, Str_slash \o Str_fr)
        ELSE ResponseNext

\* mutant: the redirect is built from a fresh URL, the query string is lost
proxyDropsQuery(request) ==
    LET pathname == request.pathname
        parts == FilterBoolean(Split(pathname))
        hasLocale == Len(parts) > 0 /\ Includes(SUPPORTED_LOCALES, parts[1])
        fresh == [request EXCEPT !.search = ""]
    IN  IF \/ StartsWith(pathname, Str_next)
           \/ StartsWith(pathname, Str_api)
           \/ PUBLIC_FILE_test(pathname)
        THEN ResponseNext
        ELSE IF pathname = Str_slash
        THEN Redirect(fresh, Str_slash \o Str_fr)
        ELSE IF ~hasLocale
        THEN Redirect(fresh, Str_slash \o Str_fr \o pathname)
        ELSE ResponseNext

\* mutant: the locale check runs before the asset / API / file bypass
proxyLocaleFirst(request) ==
    LET pathname == request.pathname
        parts == FilterBoolean(Split(pathname))
        hasLocale == Len(parts) > 0 /\ Includes(SUPPORTED_LOCALES, parts[1])
    IN  IF pathname = Str_slash
        THEN Redirect(request, Str_slash \o Str_fr)
        ELSE IF ~hasLocale
        THEN Redirect(request, Str_slash \o Str_fr \o pathname)
        ELSE ResponseNext

\* mutant: the locale test looks at the whole pathname, not at its first
\* segment
proxyLocaleOfPathname(request) ==
    LET pathname == request.pathname
        hasLocale == Includes(SUPPORTED_LOCALES, pathname)
    IN  IF \/ StartsWith(pathname, Str_next)
           \/ StartsWith(pathname, Str_api)
           \/ PUBLIC_FILE_test(pathname)
        THEN ResponseNext
        ELSE IF pathname = Str_slash
        THEN Redirect(request, Str_slash \o Str_fr)
        ELSE IF ~hasLocale
        THEN Redirect(request, Str_slash \o Str_fr \o pathname)
        ELSE ResponseNext

proxy(request) ==
    LET pathname == request.pathname
        parts == FilterBoolean(Split(pathname))
        \* firstSegment is undefined when there is no segment; includes() is
        \* then false
        hasLocale == Len(parts) > 0 /\ Includes(SUPPORTED_LOCALES, parts[1])
    IN  IF \/ StartsWith(pathname, Str_next)
           \/ StartsWith(pathname, Str_api)
           \/ PUBLIC_FILE_test(pathname)
        THEN ResponseNext
        ELSE IF pathname = Str_slash
        THEN Redirect(request, Str_slash \o Str_fr)
        ELSE IF ~hasLocale
        THEN Redirect(request, Str_slash \o Str_fr \o pathname)
        ELSE ResponseNext

(***************************************************************************)
(* Request pathnames: "/" followed by up to MaxChunks chunks               *)
(***************************************************************************)
Chunks ==
    { <<"/">>, <<"f", "r">>, <<"e", "n">>, <<"x">>, <<".">>,
      <<"_", "n", "e", "x", "t">>, <<"a", "p", "i">>,
      <<"s", "t", "a", "t", "i", "c">>,
      <<"f", "a", "v", "i", "c", "o", "n">>, <<"i", "c", "o">> }

RECURSIVE PathsOver(_, _)
PathsOver(chunks, n) ==
    IF n = 0 THEN { Str_slash }
    ELSE LET P == PathsOver(chunks, n - 1)
         IN  P \cup { p \o c : p \in P, c \in chunks }

PathsUpTo(n) == PathsOver(Chunks, n)

\* A URL's pathname never holds a "." or ".." segment: the URL parser
\* resolves them before the router sees the request.
NoDotSegment(p) ==
    \A i \in DOMAIN Split(p) : Split(p)[i] \notin { <<".">>, <<".", ".">> }

Pathnames == { p \in PathsUpTo(MaxChunks) : NoDotSegment(p) }

Searches == { "", "?q=1" }

Urls == [pathname : Pathnames, search : Searches]

(***************************************************************************)
(* Locale layout and home page                                             *)
(***************************************************************************)
\* The app directory holds api/health, api/chat and [locale]/...: a path
\* that reaches rendering with at least one segment, and is neither under
\* api/ nor under _next/ nor the favicon file, binds its first segment to
\* the locale parameter.
Segments(p) == FilterBoolean(Split(p))

BindsLocaleParam(p) ==
    /\ Len(Segments(p)) > 0
    /\ Segments(p)[1] # <<"a", "p", "i">>
    /\ Segments(p)[1] # <<"_", "n", "e", "x", "t">>
    /\ Segments(p)[1] # <<"f", "a", "v", "i", "c", "o", "n", ".", "i", "c", "o">>

LayoutNone == [kind |-> "none", locale |-> <<>>]

\* if (!isLocale(localeParam)) notFound(); const locale = localeParam
LocaleLayoutResult(localeParam) ==
    IF ~isLocale(localeParam)
    THEN [kind |-> "notFound", locale |-> <<>>]
    ELSE [kind |-> "rendered", locale |-> localeParam]

\* const locale = isLocale(localeParam) ? localeParam : "fr"
HomePageResult(localeParam) ==
    [kind |-> "rendered",
     locale |-> IF isLocale(localeParam) THEN localeParam ELSE Str_fr]

\* the router is not part of the run
RouterParked ==
    /\ origUrl = [pathname |-> Str_slash, search |-> ""]
    /\ reqUrl = origUrl
    /\ rtPc = "parked"
    /\ routerOut = NoResponse
    /\ layoutOut = LayoutNone
    /\ pageOut = LayoutNone
    /\ hops = 0

(***************************************************************************)
(* Backend proxy endpoints                                                 *)
(***************************************************************************)
\* A body on the wire is JSON text (json, with the value it parses to) or
\* text that does not parse as JSON (an HTML error page, an empty body).
JsonBody(v) == [json |-> TRUE, val |-> v]
TextBody(t) == [json |-> FALSE, val |-> [raw |-> t]]

\* await x.json(): the parsed value, or a throw when the text is not JSON
JsonThrows(body) == ~body.json
JsonValue(body) == body.val

\* JSON.stringify(value) as a request body
Stringify(v) == JsonBody(v)

NoBody == TextBody("")
NoAnswer == [kind |-> "none", status |-> 0, body |-> NoBody]
\* fetch() rejected: the backend could not be reached
NetworkFailure == [kind |-> "failure", status |-> 0, body |-> NoBody]
Answer(st, b) == [kind |-> "answer", status |-> st, body |-> b]

NoHttpResponse == [status |-> 0, body |-> NoBody]

\* NextResponse.json(data, { status })
NextResponse_json(data, st) == [status |-> st, body |-> JsonBody(data)]

\* what the backend may answer to GET /health
HealthAnswers ==
    { Answer(st, JsonBody(v)) :
        st \in {200, 500, 503},
        v \in { [status |-> "ok"], [status |-> "degraded"],
                [detail |-> "boom"] } }
    \cup { Answer(500, TextBody("Internal Server Error")),
           Answer(502, TextBody("<html>Bad Gateway</html>")),
           Answer(204, NoBody) }

\* what the backend may answer to POST /chat
ChatAnswers ==
    { Answer(st, JsonBody(v)) :
        st \in {200, 422, 500},
        v \in { [response |-> "hello"], [message |-> "Backend unreachable"],
                [detail |-> "bad request"] } }
    \cup { Answer(500, TextBody("Internal Server Error")),
           Answer(204, NoBody) }

\* bodies a client may post to /api/chat
ChatRequests ==
    { JsonBody([message |-> "hi"]),
      JsonBody([message |-> "hi", session_id |-> "a1b2", locale |-> "fr"]),
      TextBody("{oops") }

\* mutant: the health handler answers a failure with the chat envelope
HealthUnreachableAsChat ==
    NextResponse_json([message |-> "Backend unreachable"], 502)

\* catch { return NextResponse.json({status: "error", reason: ...}, {status: 502}) }
HealthUnreachable ==
    NextResponse_json([status |-> "error", reason |-> "backend_unreachable"], 502)

\* mutant: the chat handler answers a failure with status 500
ChatUnreachable500 ==
    NextResponse_json([message |-> "Backend unreachable"], 500)

\* catch { return NextResponse.json({message: "Backend unreachable"}, {status: 502}) }
ChatUnreachable ==
    NextResponse_json([message |-> "Backend unreachable"], 502)

\* mutant: the relay forgets the status option, every relayed answer is a 200
RelayAlways200(response) ==
    IF JsonThrows(response.body)
    THEN [threw |-> TRUE, resp |-> NoHttpResponse]
    ELSE [threw |-> FALSE,
          resp |-> NextResponse_json(JsonValue(response.body), 200)]

\* const data = await response.json();
\* return NextResponse.json(data, { status: response.status });
Relay(response) ==
    IF JsonThrows(response.body)
    THEN [threw |-> TRUE, resp |-> NoHttpResponse]
    ELSE [threw |-> FALSE,
          resp |-> NextResponse_json(JsonValue(response.body), response.status)]

ProxyParked ==
    /\ pxEndpoint = "none"
    /\ pxPc = "idle"
    /\ pxRequest = NoBody
    /\ pxSent = NoBody
    /\ pxBackend = NoAnswer
    /\ pxResponse = NoHttpResponse
    /\ pxOutbound = 0
    /\ pxResponses = 0
    /\ pxServed = 0
    /\ pxPrev = NoHttpResponse

\* a new invocation starts with nothing carried over from the last one
Invoke(endpoint) ==
    /\ pxPc \in {"idle", "done"}
    /\ pxServed < MaxInvocations \/ pxPc = "idle"
    /\ pxEndpoint' = endpoint
    /\ pxServed' = IF pxPc = "done" THEN pxServed + 1 ELSE pxServed
    /\ pxPrev' = pxResponse
    /\ pxBackend' = NoAnswer
    /\ pxResponse' = NoHttpResponse
    /\ pxResponses' = 0

Respond(resp) ==
    /\ pxResponse' = resp
    /\ pxResponses' = pxResponses + 1
    /\ pxPc' = "done"

\* GET(): the handler runs up to its first await, fetch(`${baseUrl}/health`)
GET_Call ==
    /\ Invoke("health")
    /\ pxRequest' = NoBody
    /\ pxSent' = NoBody
    /\ pxOutbound' = 1
    /\ pxPc' = "awaitFetch"
    /\ UNCHANGED notProxyVars

\* mutant: a failed fetch is tried once more before the envelope is returned
GET_FetchSettlesWithRetry ==
    /\ pxEndpoint = "health"
    /\ pxPc = "awaitFetch"
    /\ \E outcome \in HealthAnswers \cup {NetworkFailure} :
        /\ pxBackend' = outcome
        /\ IF outcome.kind = "failure" /\ pxOutbound < 2
           THEN /\ pxOutbound' = pxOutbound + 1
                /\ UNCHANGED <<pxResponse, pxResponses, pxPc>>
           ELSE IF outcome.kind = "failure"
           THEN Respond(HealthUnreachable) /\ UNCHANGED pxOutbound
           ELSE /\ pxPc' = "awaitJson"
                /\ UNCHANGED <<pxResponse, pxResponses, pxOutbound>>
    /\ UNCHANGED <<pxEndpoint, pxRequest, pxSent, pxServed, pxPrev>>
    /\ UNCHANGED notProxyVars

\* the fetch settles: it rejects (catch: the envelope) or yields a response
GET_FetchSettles ==
    /\ pxEndpoint = "health"
    /\ pxPc = "awaitFetch"
    /\ \E outcome \in HealthAnswers \cup {NetworkFailure} :
        /\ pxBackend' = outcome
        /\ IF outcome.kind = "failure"
           THEN Respond(HealthUnreachable)
           ELSE /\ pxPc' = "awaitJson"
                /\ UNCHANGED <<pxResponse, pxResponses>>
    /\ UNCHANGED <<pxEndpoint, pxRequest, pxSent, pxOutbound, pxServed, pxPrev>>
    /\ UNCHANGED notProxyVars

\* response.json() settles, then NextResponse.json(data, {status})
GET_Json ==
    /\ pxEndpoint = "health"
    /\ pxPc = "awaitJson"
    /\ Respond(IF Relay(pxBackend).threw THEN HealthUnreachable
               ELSE Relay(pxBackend).resp)
    /\ UNCHANGED <<pxEndpoint, pxRequest, pxSent, pxBackend, pxOutbound,
                   pxServed, pxPrev>>
    /\ UNCHANGED notProxyVars

\* POST(request): the handler runs up to its first await, request.json()
POST_Call ==
    /\ Invoke("chat")
    /\ \E body \in ChatRequests : pxRequest' = body
    /\ pxSent' = NoBody
    /\ pxOutbound' = 0
    /\ pxPc' = "awaitRequestJson"
    /\ UNCHANGED notProxyVars

\* mutant: a body that does not parse is sent on as it came
POST_RequestJsonSendsAnyway ==
    /\ pxEndpoint = "chat"
    /\ pxPc = "awaitRequestJson"
    /\ pxSent' = (IF JsonThrows(pxRequest) THEN pxRequest
                  ELSE Stringify(JsonValue(pxRequest)))
    /\ pxOutbound' = pxOutbound + 1
    /\ pxPc' = "awaitFetch"
    /\ UNCHANGED <<pxResponse, pxResponses>>
    /\ UNCHANGED <<pxEndpoint, pxRequest, pxBackend, pxServed, pxPrev>>
    /\ UNCHANGED notProxyVars

\* request.json() settles: a throw (catch: the envelope, nothing was sent)
\* or the payload, which is sent on with fetch(`${baseUrl}/chat`)
POST_RequestJson ==
    /\ pxEndpoint = "chat"
    /\ pxPc = "awaitRequestJson"
    /\ IF JsonThrows(pxRequest)
       THEN /\ Respond(ChatUnreachable)
            /\ UNCHANGED <<pxSent, pxOutbound>>
       ELSE /\ pxSent' = Stringify(JsonValue(pxRequest))
            /\ pxOutbound' = pxOutbound + 1
            /\ pxPc' = "awaitFetch"
            /\ UNCHANGED <<pxResponse, pxResponses>>
    /\ UNCHANGED <<pxEndpoint, pxRequest, pxBackend, pxServed, pxPrev>>
    /\ UNCHANGED notProxyVars

POST_FetchSettles ==
    /\ pxEndpoint = "chat"
    /\ pxPc = "awaitFetch"
    /\ \E outcome \in ChatAnswers \cup {NetworkFailure} :
        /\ pxBackend' = outcome
        /\ IF outcome.kind = "failure"
           THEN Respond(ChatUnreachable)
           ELSE /\ pxPc' = "awaitJson"
                /\ UNCHANGED <<pxResponse, pxResponses>>
    /\ UNCHANGED <<pxEndpoint, pxRequest, pxSent, pxOutbound, pxServed, pxPrev>>
    /\ UNCHANGED notProxyVars

POST_Json ==
    /\ pxEndpoint = "chat"
    /\ pxPc = "awaitJson"
    /\ Respond(IF Relay(pxBackend).threw THEN ChatUnreachable
               ELSE Relay(pxBackend).resp)
    /\ UNCHANGED <<pxEndpoint, pxRequest, pxSent, pxBackend, pxOutbound,
                   pxServed, pxPrev>>
    /\ UNCHANGED notProxyVars

(***************************************************************************)
(* Chat panel: helpers                                                     *)
(***************************************************************************)
IsSpace(c) == c = " "

\* String.prototype.trim
RECURSIVE TrimStart(_)
TrimStart(t) ==
    IF Len(t) > 0 /\ IsSpace(t[1]) THEN TrimStart(Tail(t)) ELSE t

RECURSIVE TrimEnd(_)
TrimEnd(t) ==
    IF Len(t) > 0 /\ IsSpace(t[Len(t)])
    THEN TrimEnd(SubSeq(t, 1, Len(t) - 1))
    ELSE t

Trim(t) == TrimEnd(TrimStart(t))

\* t.split(/\s+/).length: one more than the number of maximal runs of
\* whitespace in t
SplitWsLength(t) ==
    1 + Cardinality({ i \in 1..Len(t) :
                        IsSpace(t[i]) /\ (i = 1 \/ ~IsSpace(t[i - 1])) })

\* String(n) for a natural number
Digit(d) == <<"0", "1", "2", "3", "4", "5", "6", "7", "8", "9">>[d + 1]

RECURSIVE NumToStr(_)
NumToStr(n) ==
    IF n < 10 THEN <<Digit(n)>>
    ELSE NumToStr(n \div 10) \o <<Digit(n % 10)>>

\* t.slice(0, k)
Slice0(t, k) == SubSeq(t, 1, IF k < Len(t) THEN k ELSE Len(t))

Str_ERR == <<"[", "E", "R", "R", "]", " ">>
Str_HTTP == <<"H", "T", "T", "P", "_">>
Str_NoResponse ==
    <<"N", "o", " ", "r", "e", "s", "p", "o", "n", "s", "e", " ",
      "r", "e", "c", "e", "i", "v", "e", "d", ".">>

NullId == [p |-> "null", n |-> 0]

\* dict.chat.boot1 .. boot4
Boots == << <<"boot1">>, <<"boot2">>, <<"boot3">>, <<"boot4">> >>

Message(id, role, content) == [id |-> id, role |-> role, content |-> content]

\* what the input field may be set to
Inputs ==
    { <<>>, <<" ", " ">>, <<" ", "a", " ", "a", " ">> }

\* the JSON object a reply carries: a missing field is the empty string here
\* (both are falsy); detail may be a value that is not a string
Data(response, reply, message, detailIsString, detail) ==
    [response |-> response, reply |-> reply, message |-> message,
     detailIsString |-> detailIsString, detail |-> detail]

EmptyData == Data(<<>>, <<>>, <<>>, FALSE, <<>>)

\* how fetch("/api/chat") may settle: it rejects with an error message, or
\* it yields a response with a status and a body (JSON or not)
Rejected(msg) ==
    [kind |-> "rejected", msg |-> msg, status |-> 0, json |-> FALSE,
     data |-> EmptyData]
Responded(st, isJson, d) ==
    [kind |-> "response", msg |-> <<>>, status |-> st, json |-> isJson,
     data |-> d]

ChatOutcomes ==
    { Rejected(<<"n", "e", "t">>),
      Responded(200, TRUE, Data(<<"o", "k">>, <<>>, <<>>, FALSE, <<>>)),
      Responded(200, TRUE, Data(<<>>, <<"r">>, <<"m", " ", "m">>, FALSE, <<>>)),
      Responded(200, TRUE, Data(<<>>, <<>>, <<"m", " ", "m">>, FALSE, <<>>)),
      Responded(200, TRUE, EmptyData),
      Responded(502, TRUE, Data(<<>>, <<>>, <<"d", "o", "w", "n">>, FALSE, <<>>)),
      Responded(422, TRUE, Data(<<>>, <<>>, <<>>, TRUE, <<"n", "o">>)),
      Responded(422, TRUE, Data(<<>>, <<>>, <<>>, FALSE, <<"n", "o">>)),
      Responded(400, TRUE, Data(<<>>, <<>>, <<>>, TRUE, <<>>)),
      Responded(500, FALSE, EmptyData) }

\* res.ok
ResOk(st) == st >= 200 /\ st <= 299

\* a || b on strings: the first one that is not empty
OrElse(a, b) == IF a # <<>> THEN a ELSE b

\* what the try block of handleSend makes of a settled fetch: the reply, or
\* the message of the Error that reaches the catch block
Settled(outcome) ==
    LET data == IF outcome.json THEN outcome.data ELSE EmptyData
        detail == IF data.detailIsString /\ data.detail # <<>>
                  THEN data.detail
                  ELSE Str_HTTP \o NumToStr(outcome.status)
        reply == OrElse(data.response,
                        OrElse(data.reply, OrElse(data.message, Str_NoResponse)))
    IN  IF outcome.kind = "rejected" THEN [threw |-> TRUE, text |-> outcome.msg]
        ELSE IF ~ResOk(outcome.status) THEN [threw |-> TRUE, text |-> detail]
        ELSE [threw |-> FALSE, text |-> reply]

\* the state a component instance starts with, and is left with when React
\* discards it
InitialMetrics == [jitter |-> 0, tokensUsed |-> 0]

\* record of a handleSend call: what it did, whether the input it saw was
\* blank, and whether the panel was booted and not processing at the call
NoSend == [result |-> "none", blank |-> FALSE, idle |-> FALSE]

\* the chat panel is not part of the run
ChatParked ==
    /\ chMounted = FALSE
    /\ messages = <<>>
    /\ input = <<>>
    /\ isProcessing = FALSE
    /\ typingText = <<>>
    /\ typingId = NullId
    /\ booted = FALSE
    /\ metrics = InitialMetrics
    /\ pendingTextRef = <<>>
    /\ bootTimers = {}
    /\ cancelled = FALSE
    /\ fetchCh = <<>>
    /\ netCalls = 0
    /\ typeFull = <<>>
    /\ typeIdx = 0
    /\ typeInterval = FALSE
    /\ typeEffect = FALSE
    /\ lastSend = NoSend
    /\ clock = 0
    /\ uptime = 0
    /\ isDisconnecting = FALSE
    /\ disconnectTimers = 0
    /\ navigations = 0

(***************************************************************************)
(* Dictionary loader: helpers                                              *)
(***************************************************************************)
\* the two bundles, ./dictionaries/fr.json and ./dictionaries/en.json
Bundles == { "fr.json", "en.json" }

NoDictionary == [asked |-> <<>>, got |-> "none"]

\* the locale registry and the dictionary loader are not part of the run
I18nParked ==
    /\ locCandidate = <<>>
    /\ locResult = FALSE
    /\ locPc = "parked"
    /\ moduleCache = [b \in Bundles |-> "absent"]
    /\ bundleLoads = [b \in Bundles |-> 0]
    /\ dictPending = <<>>
    /\ dictReturned = NoDictionary
    /\ dictCalls = 0

(***************************************************************************)
(* Contact scene and CV modal: helpers                                     *)
(***************************************************************************)
\* the contact scene is not part of the run
ContactParked ==
    /\ ctMounted = FALSE
    /\ cvOpen = FALSE
    /\ copied = FALSE
    /\ exiting = FALSE
    /\ ctRenders = 0
    /\ listeners = {}
    /\ effectKey = 0
    /\ bodyOverflow = ""
    /\ copyPending = 0
    /\ copyTimers = 0
    /\ terminateTimers = 0
    /\ ctNavigations = 0
    /\ ctClicks = 0
    /\ lastClose = "none"

(***************************************************************************)
(* Backend status widget: helpers                                          *)
(***************************************************************************)
\* the widget is not part of the run
StatusParked ==
    /\ bsMounted = FALSE
    /\ bsState = "loading"
    /\ bsRuns = <<>>
    /\ bsSets = 0

(***************************************************************************)
(* Language switcher                                                       *)
(***************************************************************************)
\* mutant: the target locale is put in front of the segments instead of
\* replacing the first one
swapLocalePrepends(pathname, nextLocale) ==
    LET parts == FilterBoolean(Split(pathname))
    IN  IF Len(parts) = 0 THEN Str_slash \o nextLocale
        ELSE Str_slash \o Join(<<nextLocale>> \o parts)

\* mutant: the result ends with a slash
swapLocaleTrailingSlash(pathname, nextLocale) ==
    LET parts == FilterBoolean(Split(pathname))
    IN  IF Len(parts) = 0 THEN Str_slash \o nextLocale \o Str_slash
        ELSE Str_slash \o Join([parts EXCEPT ![1] = nextLocale]) \o Str_slash

swapLocale(pathname, nextLocale) ==
    LET parts == FilterBoolean(Split(pathname))
    IN  IF Len(parts) = 0 THEN Str_slash \o nextLocale
        ELSE Str_slash \o Join([parts EXCEPT ![1] = nextLocale])

SwapChunks == { <<"/">>, <<"f", "r">>, <<"e", "n">>, <<"x">> }

SwapPathnames == PathsOver(SwapChunks, MaxSwapChunks)

Locales == { Str_fr, Str_en }

SwapParked ==
    /\ swPathname = Str_slash
    /\ swTarget = Str_fr
    /\ swHref = <<>>
    /\ swPc = "parked"
    /\ swSwaps = 0

InitSwap ==
    /\ swPathname \in SwapPathnames
    /\ swTarget \in Locales
    /\ swHref = <<>>
    /\ swPc = "ready"
    /\ swSwaps = 0
    /\ RouterParked
    /\ ProxyParked
    /\ ChatParked
    /\ I18nParked
    /\ ContactParked
    /\ StatusParked

\* the switcher computes the href of its link
SwapLocale ==
    /\ swPc = "ready"
    /\ swHref' = swapLocale(swPathname, swTarget)
    /\ swPc' = "swapped"
    /\ UNCHANGED <<swPathname, swTarget, swSwaps>>
    /\ UNCHANGED notSwapVars

\* the link is followed: the href is the next pathname the switcher sees
Navigate ==
    /\ swPc = "swapped"
    /\ swSwaps < MaxSwaps
    /\ swPathname' = swHref
    /\ swTarget' \in Locales
    /\ swHref' = <<>>
    /\ swPc' = "ready"
    /\ swSwaps' = swSwaps + 1
    /\ UNCHANGED notSwapVars

NextSwap == SwapLocale \/ Navigate

SpecSwap == InitSwap /\ [][NextSwap]_vars

(***************************************************************************)
(* Language switcher claims                                                *)
(***************************************************************************)
\* a pathname in normal form: a leading "/", segments separated by single
\* slashes, no trailing slash
IsNormalised(p) == p = Str_slash \o Join(Segments(p))

\* C9: for a pathname with at least one segment the result has the target
\* locale as its first segment followed by the later segments of the
\* pathname in order, and nothing else; on a pathname in normal form it is
\* the pathname with exactly the characters of the first segment replaced;
\* for a pathname with one segment or none it is /<target locale>.
C9_SwapReplacesFirstSegment ==
    swPc = "swapped" =>
        LET segs == Segments(swPathname)
        IN  /\ Len(segs) <= 1 => swHref = <<"/">> \o swTarget
            /\ Len(segs) >= 1 =>
                /\ Segments(swHref) = <<swTarget>> \o Tail(segs)
                /\ IsNormalised(swHref)
            /\ (Len(segs) >= 1 /\ IsNormalised(swPathname)) =>
                swHref = <<"/">> \o swTarget
                           \o SubSeq(swPathname, Len(segs[1]) + 2, Len(swPathname))

C9_Witness ==
    /\ swPc = "swapped"
    /\ swSwaps = 0
    /\ swPathname = <<"/", "f", "r", "/", "x", "/", "e", "n">>
    /\ swTarget = Str_en
    /\ swHref = <<"/", "e", "n", "/", "x", "/", "e", "n">>

\* C24: swapLocale(swapLocale(p, a), b) equals swapLocale(p, b) for every
\* pathname p and locales a, b (the last swap wins, swapping to the same
\* locale twice changes nothing more), and for every normalised path p whose
\* first segment is locale L, swapping to the other locale and back to L
\* gives p again.
C24_LastSwapWins ==
    swPc = "swapped" =>
        LET segs == Segments(swPathname)
        IN  /\ \A b \in Locales :
                 swapLocale(swHref, b) = swapLocale(swPathname, b)
            /\ swapLocale(swHref, swTarget) = swHref
            /\ (/\ IsNormalised(swPathname)
                /\ Len(segs) >= 1
                /\ segs[1] \in Locales
                /\ segs[1] # swTarget)
                 => swapLocale(swHref, segs[1]) = swPathname

\* the switcher was followed from /fr/x to /en/x and now links back to /fr/x
C24_Witness ==
    /\ swPc = "swapped"
    /\ swSwaps = 1
    /\ swPathname = <<"/", "e", "n", "/", "x">>
    /\ swTarget = Str_fr
    /\ swHref = <<"/", "f", "r", "/", "x">>

(***************************************************************************)
(* Router specification                                                    *)
(***************************************************************************)
InitRouter ==
    /\ origUrl \in Urls
    /\ reqUrl = origUrl
    /\ rtPc = "request"
    /\ routerOut = NoResponse
    /\ layoutOut = LayoutNone
    /\ pageOut = LayoutNone
    /\ hops = 0
    /\ ProxyParked
    /\ SwapParked
    /\ ChatParked
    /\ I18nParked
    /\ ContactParked
    /\ StatusParked

\* the router runs once per incoming request, before any page logic
Proxy ==
    /\ rtPc = "request"
    /\ routerOut' = IF Matcher(reqUrl.pathname) THEN proxy(reqUrl) ELSE Unmatched
    /\ rtPc' = "routed"
    /\ UNCHANGED <<origUrl, reqUrl, layoutOut, pageOut, hops>>
    /\ UNCHANGED notRouterVars

\* the client follows the redirect: a new request for the redirect's URL
FollowRedirect ==
    /\ rtPc = "routed"
    /\ routerOut.kind = "redirect"
    /\ hops < MaxHops
    /\ reqUrl' = routerOut.url
    /\ routerOut' = NoResponse
    /\ rtPc' = "request"
    /\ hops' = hops + 1
    /\ UNCHANGED <<origUrl, layoutOut, pageOut>>
    /\ UNCHANGED notRouterVars

LocaleLayout ==
    /\ rtPc = "routed"
    /\ routerOut.kind \in {"next", "unmatched"}
    /\ BindsLocaleParam(reqUrl.pathname)
    /\ layoutOut' = LocaleLayoutResult(Segments(reqUrl.pathname)[1])
    /\ rtPc' = "layout"
    /\ UNCHANGED <<origUrl, reqUrl, routerOut, pageOut, hops>>
    /\ UNCHANGED notRouterVars

\* the page of /[locale] renders inside the layout, unless the layout
\* called notFound()
HomePage ==
    /\ rtPc = "layout"
    /\ layoutOut.kind = "rendered"
    /\ Len(Segments(reqUrl.pathname)) = 1
    /\ pageOut' = HomePageResult(Segments(reqUrl.pathname)[1])
    /\ rtPc' = "page"
    /\ UNCHANGED <<origUrl, reqUrl, routerOut, layoutOut, hops>>
    /\ UNCHANGED notRouterVars

NextRouter == Proxy \/ FollowRedirect \/ LocaleLayout \/ HomePage

SpecRouter == InitRouter /\ [][NextRouter]_vars

(***************************************************************************)
(* Router claims                                                           *)
(***************************************************************************)
\* the last piece of the path (after the final "/") holds a dot that is not
\* its final character
EndsInFileExtension(p) ==
    LET pieces == Split(p)
        last == pieces[Len(pieces)]
    IN  \E i \in 1..(Len(last) - 1) : last[i] = "."

Bypassed(p) ==
    \/ StartsWith(p, Str_next)
    \/ StartsWith(p, Str_api)
    \/ EndsInFileExtension(p)

FirstSegmentIsNoLocale(p) ==
    /\ Len(Segments(p)) >= 1
    /\ Segments(p)[1] \notin {Str_fr, Str_en}

DefaultPrefixed(url) ==
    [kind |-> "redirect",
     url |-> [pathname |-> <<"/", "f", "r">> \o url.pathname,
              search |-> url.search]]

\* C1 as stated: every routed path /s/... whose first segment s is not a
\* supported locale is answered with a redirect to /fr/s/..., never passed
\* through.
C1_EveryNonLocalePathRedirected ==
    (/\ rtPc = "routed"
     /\ routerOut.kind # "unmatched"
     /\ FirstSegmentIsNoLocale(reqUrl.pathname))
        => routerOut = DefaultPrefixed(reqUrl)

\* C1 amended: every path handed to the router whose first segment is not a
\* supported locale, and which does not start with /_next or /api and does
\* not end in a file extension, is answered with a redirect to the same
\* path prefixed with /fr; it is never passed through.
C1_NonLocalePathRedirected ==
    (/\ rtPc = "routed"
     /\ routerOut.kind # "unmatched"
     /\ FirstSegmentIsNoLocale(reqUrl.pathname)
     /\ ~Bypassed(reqUrl.pathname))
        => routerOut = DefaultPrefixed(reqUrl)

C1_Witness ==
    /\ rtPc = "routed"
    /\ hops = 0
    /\ reqUrl.pathname = <<"/", "x", "/", "e", "n">>
    /\ routerOut.kind = "redirect"
    /\ routerOut.url.pathname = <<"/", "f", "r", "/", "x", "/", "e", "n">>

\* C2: a request for exactly / is redirected to /fr whatever its query
\* string is, and the redirect URL differs from the request URL in the path
\* only.
C2_RootRedirectsToFr ==
    (rtPc = "routed" /\ reqUrl.pathname = <<"/">>)
        => /\ routerOut.kind = "redirect"
           /\ routerOut.url = [reqUrl EXCEPT !.pathname = <<"/", "f", "r">>]

C2_Witness ==
    /\ rtPc = "routed"
    /\ reqUrl = [pathname |-> <<"/">>, search |-> "?q=1"]
    /\ routerOut.kind = "redirect"
    /\ routerOut.url.search = "?q=1"

\* C3: a path under /_next or /api, or ending in a file extension, is passed
\* through with no redirect, also when its first segment is not a locale.
C3_BypassPassesThrough ==
    (rtPc = "routed" /\ Bypassed(reqUrl.pathname))
        => routerOut \in {ResponseNext, Unmatched}

C3_Witness ==
    /\ rtPc = "routed"
    /\ EndsInFileExtension(reqUrl.pathname)
    /\ FirstSegmentIsNoLocale(reqUrl.pathname)
    /\ ~StartsWith(reqUrl.pathname, Str_next)
    /\ ~StartsWith(reqUrl.pathname, Str_api)
    /\ routerOut.kind = "next"

\* C4 as stated: a request whose locale segment is not a supported locale
\* never ends in a not-found outcome.
C4_InvalidLocaleNeverNotFound ==
    FirstSegmentIsNoLocale(origUrl.pathname) => layoutOut.kind # "notFound"

\* C19: every redirect of the router leads to /fr (from the root) or to the
\* requested path prefixed with /fr; the request for the target of a
\* redirect is passed through; so no request is redirected more than once.
C19_RedirectsConverge ==
    /\ (rtPc = "routed" /\ routerOut.kind = "redirect")
         => /\ routerOut.url.pathname
                 = (IF reqUrl.pathname = <<"/">> THEN <<"/", "f", "r">>
                    ELSE <<"/", "f", "r">> \o reqUrl.pathname)
            /\ Segments(routerOut.url.pathname)[1] = <<"f", "r">>
    /\ (rtPc = "routed" /\ hops >= 1) => routerOut.kind \in {"next", "unmatched"}
    /\ hops <= 1

\* the redirect of /x/en was followed and its target /fr/x/en passed through
C19_Witness ==
    /\ rtPc = "routed"
    /\ hops = 1
    /\ origUrl.pathname = <<"/", "x", "/", "e", "n">>
    /\ reqUrl.pathname = <<"/", "f", "r", "/", "x", "/", "e", "n">>
    /\ routerOut.kind = "next"

(***************************************************************************)
(* Proxy endpoint specification                                            *)
(***************************************************************************)
InitProxy ==
    /\ RouterParked
    /\ ProxyParked
    /\ SwapParked
    /\ ChatParked
    /\ I18nParked
    /\ ContactParked
    /\ StatusParked

NextProxy ==
    \/ GET_Call
    \/ GET_FetchSettles
    \/ GET_Json
    \/ POST_Call
    \/ POST_RequestJson
    \/ POST_FetchSettles
    \/ POST_Json

SpecProxy == InitProxy /\ [][NextProxy]_vars

(***************************************************************************)
(* Proxy endpoint claims                                                   *)
(***************************************************************************)
\* C5: when the outbound call of the health proxy fails with a network
\* failure, the response is exactly {status: "error", reason:
\* "backend_unreachable"} with status 502.
C5_HealthNetworkFailureEnvelope ==
    (pxEndpoint = "health" /\ pxPc = "done" /\ pxBackend.kind = "failure")
        => pxResponse =
             [status |-> 502,
              body |-> [json |-> TRUE,
                        val |-> [status |-> "error",
                                 reason |-> "backend_unreachable"]]]

C5_Witness ==
    /\ pxEndpoint = "health"
    /\ pxPc = "done"
    /\ pxBackend = NetworkFailure
    /\ pxResponse.status = 502
    /\ pxResponses = 1

\* C6: when the outbound call of the chat proxy fails with a network
\* failure, the response is exactly {message: "Backend unreachable"} with
\* status 502.
C6_ChatNetworkFailureEnvelope ==
    (pxEndpoint = "chat" /\ pxPc = "done" /\ pxBackend.kind = "failure")
        => pxResponse =
             [status |-> 502,
              body |-> [json |-> TRUE,
                        val |-> [message |-> "Backend unreachable"]]]

C6_Witness ==
    /\ pxEndpoint = "chat"
    /\ pxPc = "done"
    /\ pxOutbound = 1
    /\ pxBackend = NetworkFailure
    /\ pxResponse.status = 502
    /\ pxResponses = 1

\* C7 as stated: whenever the backend answers, whatever the status, the
\* proxy returns the backend's body and status unchanged.
C7_EveryAnswerRelayed ==
    (pxPc = "done" /\ pxBackend.kind = "answer")
        => /\ pxResponse.status = pxBackend.status
           /\ pxResponse.body = pxBackend.body

\* C7 amended: whenever the backend answers with a body that is JSON, the
\* proxy returns that JSON body and the backend's status unchanged, for
\* every status, 4xx and 5xx included.
C7_JsonAnswerRelayed ==
    (pxPc = "done" /\ pxBackend.kind = "answer" /\ pxBackend.body.json)
        => /\ pxResponse.status = pxBackend.status
           /\ pxResponse.body = pxBackend.body

C7_Witness ==
    /\ pxPc = "done"
    /\ pxBackend.kind = "answer"
    /\ pxBackend.body.json
    /\ pxBackend.status = 500
    /\ pxResponse.status = 500

\* the response an invocation must give, from what this invocation alone
\* received: its request body and the way its one outbound call settled
ExpectedResponse(endpoint, request, backend) ==
    LET envelope ==
            IF endpoint = "health"
            THEN [status |-> "error", reason |-> "backend_unreachable"]
            ELSE [message |-> "Backend unreachable"]
    IN  IF backend.kind = "answer" /\ backend.body.json
        THEN [status |-> backend.status, body |-> backend.body]
        ELSE [status |-> 502, body |-> [json |-> TRUE, val |-> envelope]]

\* C8: an invocation issues at most one outbound request, produces exactly
\* one response (none before it is done), and that response is determined
\* by what this invocation received, however many invocations came before.
C8_SingleShotStateless ==
    /\ pxOutbound <= 1
    /\ pxResponses = (IF pxPc = "done" THEN 1 ELSE 0)
    /\ pxPc = "done"
         => pxResponse = ExpectedResponse(pxEndpoint, pxRequest, pxBackend)

C8_Witness ==
    /\ pxPc = "done"
    /\ pxServed >= 1
    /\ pxBackend = NetworkFailure
    /\ pxOutbound = 1
    /\ pxResponses = 1
    /\ pxPrev.status = 200
    /\ pxResponse.status = 502

\* C22: when the body of POST /api/chat is not valid JSON the proxy makes no
\* outbound call to the backend and answers with {message: "Backend
\* unreachable"} and status 502; the same envelope is returned when the
\* backend answers with a body that is not JSON.
C22_UnparseableBodyEnvelope ==
    /\ (pxEndpoint = "chat" /\ JsonThrows(pxRequest))
         => /\ pxOutbound = 0
            /\ pxSent = NoBody
            /\ pxBackend = NoAnswer
            /\ pxPc \in {"awaitRequestJson", "done"}
            /\ pxPc = "done"
                 => pxResponse =
                      [status |-> 502,
                       body |-> JsonBody([message |-> "Backend unreachable"])]
    /\ (/\ pxEndpoint = "chat"
        /\ pxPc = "done"
        /\ pxBackend.kind = "answer"
        /\ JsonThrows(pxBackend.body))
         => pxResponse =
              [status |-> 502,
               body |-> JsonBody([message |-> "Backend unreachable"])]

\* a chat invocation with a body that is not JSON is done, after an earlier
\* invocation was answered
C22_Witness ==
    /\ pxEndpoint = "chat"
    /\ pxPc = "done"
    /\ JsonThrows(pxRequest)
    /\ pxOutbound = 0
    /\ pxResponses = 1
    /\ pxResponse.status = 502
    /\ pxServed >= 1

(***************************************************************************)
(* Chat panel specification                                                *)
(***************************************************************************)
\* the state after the first render and its effects: the four boot timeouts
\* are scheduled, the uptime and metrics intervals run
InitChat ==
    /\ chMounted = TRUE
    /\ messages = <<>>
    /\ input = <<>>
    /\ isProcessing = FALSE
    /\ typingText = <<>>
    /\ typingId = NullId
    /\ booted = FALSE
    /\ metrics = InitialMetrics
    /\ pendingTextRef = <<>>
    /\ bootTimers = {0, 1, 2, 3}
    /\ cancelled = FALSE
    /\ fetchCh = <<>>
    /\ netCalls = 0
    /\ typeFull = <<>>
    /\ typeIdx = 0
    /\ typeInterval = FALSE
    /\ typeEffect = FALSE
    /\ lastSend = NoSend
    /\ clock = 0
    /\ uptime = 0
    /\ isDisconnecting = FALSE
    /\ disconnectTimers = 0
    /\ navigations = 0
    /\ RouterParked
    /\ ProxyParked
    /\ SwapParked
    /\ I18nParked
    /\ ContactParked
    /\ StatusParked

Min(S) == CHOOSE x \in S : \A y \in S : x <= y

\* React runs a pending effect before it handles anything else of the
\* component: every other step waits for the typewriter effect
EffectsFlushed == ~typeEffect

\* the boot timeout with the shortest delay fires (400 + i * 550 ms)
BootTimer ==
    /\ chMounted
    /\ EffectsFlushed
    /\ bootTimers # {}
    /\ LET i == Min(bootTimers)
       IN  /\ bootTimers' = bootTimers \ {i}
           /\ IF cancelled
              THEN UNCHANGED <<messages, booted>>
              ELSE /\ messages' =
                        Append(messages,
                               Message([p |-> "boot", n |-> i], "system",
                                       Boots[i + 1]))
                   /\ booted' = (IF i = Len(Boots) - 1 THEN TRUE ELSE booted)
    /\ UNCHANGED <<chMounted, input, isProcessing, typingText, typingId,
                   metrics, pendingTextRef, cancelled, fetchCh, netCalls,
                   typeFull, typeIdx, typeInterval, typeEffect, lastSend,
                   clock, uptime, isDisconnecting, disconnectTimers,
                   navigations>>
    /\ UNCHANGED notChatVars

\* onChange={(e) => setInput(e.target.value)}
SetInput ==
    /\ chMounted
    /\ EffectsFlushed
    /\ \E v \in Inputs : v # input /\ input' = v
    /\ UNCHANGED <<chMounted, messages, isProcessing, typingText, typingId,
                   booted, metrics, pendingTextRef, bootTimers, cancelled,
                   fetchCh, netCalls, typeFull, typeIdx, typeInterval,
                   typeEffect, lastSend, clock, uptime, isDisconnecting,
                   disconnectTimers, navigations>>
    /\ UNCHANGED notChatVars

\* handleSend up to its await: `ignore` is the condition of its early return
SendUnless(ignore) ==
    /\ chMounted
    /\ EffectsFlushed
    /\ IF ignore
       THEN /\ lastSend' = [result |-> "ignored", blank |-> Trim(input) = <<>>,
                            idle |-> booted /\ ~isProcessing]
            /\ UNCHANGED <<messages, input, isProcessing, metrics, fetchCh,
                           netCalls, clock>>
       ELSE LET trimmed == Trim(input)
            IN  /\ netCalls < MaxSends
                /\ messages' =
                     Append(messages,
                            Message([p |-> "u", n |-> clock], "user", trimmed))
                /\ input' = <<>>
                /\ isProcessing' = TRUE
                /\ metrics' =
                     [metrics EXCEPT
                        !.tokensUsed = @ + SplitWsLength(trimmed) * 3]
                /\ fetchCh' = Append(fetchCh, trimmed)
                /\ netCalls' = netCalls + 1
                /\ clock' = clock + 1
                /\ lastSend' = [result |-> "accepted",
                                blank |-> Trim(input) = <<>>,
                                idle |-> booted /\ ~isProcessing]
    /\ UNCHANGED <<chMounted, typingText, typingId, booted, pendingTextRef,
                   bootTimers, cancelled, typeFull, typeIdx, typeInterval,
                   typeEffect, uptime, isDisconnecting, disconnectTimers,
                   navigations>>
    /\ UNCHANGED notChatVars

\* mutant: the early return tests the raw input instead of the trimmed one
HandleSendNoTrim == SendUnless(input = <<>> \/ isProcessing \/ ~booted)

\* mutant: the early return does not look at isProcessing
HandleSendWhileProcessing == SendUnless(Trim(input) = <<>> \/ ~booted)

\* mutant: the early return does not look at booted
HandleSendBeforeBoot == SendUnless(Trim(input) = <<>> \/ isProcessing)

\* const trimmed = input.trim();
\* if (!trimmed || isProcessing || !booted) return;
HandleSend == SendUnless(Trim(input) = <<>> \/ isProcessing \/ ~booted)

\* s with its i-th element removed
RemoveAt(s, i) == SubSeq(s, 1, i - 1) \o SubSeq(s, i + 1, Len(s))

\* mutant: the catch block appends the bare error message
AiTextNoPrefix(outcome) == Settled(outcome).text

\* what handleSend appends when its fetch has settled
AiText(outcome) ==
    IF Settled(outcome).threw THEN Str_ERR \o Settled(outcome).text
    ELSE Settled(outcome).text

\* mutant: the reply is put at the head of the log, [aiMsg, ...prev]
FetchSettlesWithPrepend(i, outcome) ==
    /\ EffectsFlushed
    /\ i \in DOMAIN fetchCh
    /\ LET text == AiText(outcome)
           id == [p |-> "ai", n |-> clock]
       IN  /\ fetchCh' = RemoveAt(fetchCh, i)
           /\ pendingTextRef' = text
           /\ IF chMounted
              THEN /\ messages' = <<Message(id, "ai", text)>> \o messages
                   /\ typingId' = id
                   /\ typeEffect' = TRUE
                   /\ metrics' =
                        (IF Settled(outcome).threw THEN metrics
                         ELSE [metrics EXCEPT
                                 !.tokensUsed = @ + SplitWsLength(text) * 3])
              ELSE UNCHANGED <<messages, typingId, typeEffect, metrics>>
    /\ clock' = clock + 1
    /\ UNCHANGED <<chMounted, input, isProcessing, typingText, booted,
                   bootTimers, cancelled, netCalls, typeFull, typeIdx,
                   typeInterval, lastSend, uptime, isDisconnecting,
                   disconnectTimers, navigations>>
    /\ UNCHANGED notChatVars

\* a fetch of handleSend settles and handleSend runs to its end: one commit
\* with the new message and typingId. After unmount the state setters do
\* nothing and only the ref is written.
FetchSettlesWith(i, outcome) ==
    /\ EffectsFlushed
    /\ i \in DOMAIN fetchCh
    /\ LET text == AiText(outcome)
           id == [p |-> "ai", n |-> clock]
       IN  /\ fetchCh' = RemoveAt(fetchCh, i)
           /\ pendingTextRef' = text
           /\ IF chMounted
              THEN /\ messages' = Append(messages, Message(id, "ai", text))
                   /\ typingId' = id
                   /\ typeEffect' = TRUE
                   /\ metrics' =
                        (IF Settled(outcome).threw THEN metrics
                         ELSE [metrics EXCEPT
                                 !.tokensUsed = @ + SplitWsLength(text) * 3])
              ELSE UNCHANGED <<messages, typingId, typeEffect, metrics>>
    /\ clock' = clock + 1
    /\ UNCHANGED <<chMounted, input, isProcessing, typingText, booted,
                   bootTimers, cancelled, netCalls, typeFull, typeIdx,
                   typeInterval, lastSend, uptime, isDisconnecting,
                   disconnectTimers, navigations>>
    /\ UNCHANGED notChatVars

FetchSettles ==
    \E i \in DOMAIN fetchCh, outcome \in ChatOutcomes :
        FetchSettlesWith(i, outcome)

\* the typewriter effect runs for the committed typingId: the cleanup of its
\* last run, then
\*   if (!typingId) return; const fullText = pendingTextRef.current;
\*   if (!fullText) return; let idx = 0; setTypingText(""); setInterval(...)
TypewriterEffect ==
    /\ chMounted
    /\ typeEffect
    /\ typeEffect' = FALSE
    /\ IF typingId = NullId \/ pendingTextRef = <<>>
       THEN /\ typeInterval' = FALSE
            /\ UNCHANGED <<typeFull, typeIdx, typingText>>
       ELSE /\ typeFull' = pendingTextRef
            /\ typeIdx' = 0
            /\ typingText' = <<>>
            /\ typeInterval' = TRUE
    /\ UNCHANGED <<chMounted, messages, input, isProcessing, typingId, booted,
                   metrics, pendingTextRef, bootTimers, cancelled, fetchCh,
                   netCalls, lastSend, clock, uptime, isDisconnecting,
                   disconnectTimers, navigations>>
    /\ UNCHANGED notChatVars

\* mutant: the interval stops one character before the end of the text
TypewriterTickStopsEarly ==
    /\ chMounted
    /\ EffectsFlushed
    /\ typeInterval
    /\ LET idx == typeIdx + 1
       IN  /\ typeIdx' = idx
           /\ typingText' = Slice0(typeFull, idx)
           /\ IF idx >= Len(typeFull) - 1
              THEN /\ typeInterval' = FALSE
                   /\ typingId' = NullId
                   /\ isProcessing' = FALSE
              ELSE UNCHANGED <<typeInterval, typingId, isProcessing>>
    /\ UNCHANGED <<chMounted, messages, input, booted, metrics, pendingTextRef,
                   bootTimers, cancelled, fetchCh, netCalls, typeFull,
                   typeEffect, lastSend, clock, uptime, isDisconnecting,
                   disconnectTimers, navigations>>
    /\ UNCHANGED notChatVars

\* one tick of the typewriter interval (every 16 ms); the effect that runs
\* when typingId becomes null returns at once and is part of the last tick
TypewriterTick ==
    /\ chMounted
    /\ EffectsFlushed
    /\ typeInterval
    /\ LET idx == typeIdx + 1
       IN  /\ typeIdx' = idx
           /\ typingText' = Slice0(typeFull, idx)
           /\ IF idx >= Len(typeFull)
              THEN /\ typeInterval' = FALSE
                   /\ typingId' = NullId
                   /\ isProcessing' = FALSE
              ELSE UNCHANGED <<typeInterval, typingId, isProcessing>>
    /\ UNCHANGED <<chMounted, messages, input, booted, metrics, pendingTextRef,
                   bootTimers, cancelled, fetchCh, netCalls, typeFull,
                   typeEffect, lastSend, clock, uptime, isDisconnecting,
                   disconnectTimers, navigations>>
    /\ UNCHANGED notChatVars

\* one tick of the metrics interval: latency, tokenGen and memory get new
\* random values, tokensUsed is kept
MetricsTick ==
    /\ chMounted
    /\ EffectsFlushed
    /\ metrics' = [metrics EXCEPT !.jitter = 1 - @]
    /\ UNCHANGED <<chMounted, messages, input, isProcessing, typingText,
                   typingId, booted, pendingTextRef, bootTimers, cancelled,
                   fetchCh, netCalls, typeFull, typeIdx, typeInterval,
                   typeEffect, lastSend, clock, uptime, isDisconnecting,
                   disconnectTimers, navigations>>
    /\ UNCHANGED notChatVars

\* one tick of the uptime interval (every second)
UptimeTick ==
    /\ chMounted
    /\ EffectsFlushed
    /\ uptime < MaxUptime
    /\ uptime' = uptime + 1
    /\ UNCHANGED <<chMounted, messages, input, isProcessing, typingText,
                   typingId, booted, metrics, pendingTextRef, bootTimers,
                   cancelled, fetchCh, netCalls, typeFull, typeIdx,
                   typeInterval, typeEffect, lastSend, clock, isDisconnecting,
                   disconnectTimers, navigations>>
    /\ UNCHANGED notChatVars

\* setIsDisconnecting(true); setTimeout(() => router.push(`/${locale}`), 250)
HandleDisconnect ==
    /\ chMounted
    /\ EffectsFlushed
    /\ disconnectTimers + navigations < MaxDisconnects
    /\ isDisconnecting' = TRUE
    /\ disconnectTimers' = disconnectTimers + 1
    /\ UNCHANGED <<chMounted, messages, input, isProcessing, typingText,
                   typingId, booted, metrics, pendingTextRef, bootTimers,
                   cancelled, fetchCh, netCalls, typeFull, typeIdx,
                   typeInterval, typeEffect, lastSend, clock, uptime,
                   navigations>>
    /\ UNCHANGED notChatVars

\* a timeout of handleDisconnect fires: router.push. Nothing clears the
\* timeout, it fires whether the component is still mounted or not.
DisconnectTimeout ==
    /\ disconnectTimers > 0
    /\ EffectsFlushed
    /\ disconnectTimers' = disconnectTimers - 1
    /\ navigations' = navigations + 1
    /\ UNCHANGED <<chMounted, messages, input, isProcessing, typingText,
                   typingId, booted, metrics, pendingTextRef, bootTimers,
                   cancelled, fetchCh, netCalls, typeFull, typeIdx,
                   typeInterval, typeEffect, lastSend, clock, uptime,
                   isDisconnecting>>
    /\ UNCHANGED notChatVars

\* the component is torn down: the cleanups of its effects run (the uptime,
\* typewriter and metrics intervals and the boot timeouts are cleared) and
\* React discards the state of the instance
Unmount ==
    /\ chMounted
    /\ EffectsFlushed
    /\ chMounted' = FALSE
    /\ cancelled' = TRUE
    /\ bootTimers' = {}
    /\ typeInterval' = FALSE
    /\ messages' = <<>>
    /\ booted' = FALSE
    /\ input' = <<>>
    /\ isProcessing' = FALSE
    /\ typingText' = <<>>
    /\ typingId' = NullId
    /\ metrics' = InitialMetrics
    /\ typeFull' = <<>>
    /\ typeIdx' = 0
    /\ uptime' = 0
    /\ isDisconnecting' = FALSE
    /\ UNCHANGED <<pendingTextRef, fetchCh, netCalls, typeEffect, lastSend,
                   clock, disconnectTimers, navigations>>
    /\ UNCHANGED notChatVars

\* the conversation: boot, input, submissions, replies, the typewriter
NextChat ==
    \/ BootTimer
    \/ SetInput
    \/ HandleSend
    \/ FetchSettles
    \/ TypewriterEffect
    \/ TypewriterTick
    \/ Unmount

SpecChat == InitChat /\ [][NextChat]_vars

\* the conversation when every fetch settles and the timers keep firing
SpecChatLive ==
    /\ SpecChat
    /\ WF_vars(BootTimer)
    /\ WF_vars(FetchSettles)
    /\ WF_vars(TypewriterEffect)
    /\ WF_vars(TypewriterTick)

\* the timers of the panel and its teardown
NextChatTimers ==
    \/ BootTimer
    \/ UptimeTick
    \/ MetricsTick
    \/ HandleDisconnect
    \/ DisconnectTimeout
    \/ Unmount

SpecChatTimers == InitChat /\ [][NextChatTimers]_vars

(***************************************************************************)
(* Chat panel claims                                                       *)
(***************************************************************************)
\* the text is empty or holds whitespace only
IsBlank(t) == \A i \in 1..Len(t) : t[i] = " "

\* C10: a handleSend call on an input that is empty or holds only whitespace
\* starts no network call and changes neither the message log, the input,
\* isProcessing, typingId nor the metrics.
C10_BlankInputIgnored ==
    [][(HandleSend /\ IsBlank(input))
         => UNCHANGED <<messages, input, isProcessing, typingId, metrics,
                        fetchCh, netCalls>>]_vars

C10_Witness ==
    /\ lastSend = [result |-> "ignored", blank |-> TRUE, idle |-> TRUE]
    /\ input = <<" ", " ">>
    /\ booted
    /\ ~isProcessing
    /\ netCalls = 0
    /\ Len(messages) = 4

\* C11: at most one chat network call is in flight in every reachable state,
\* and a handleSend call made while isProcessing is true or before booted is
\* true starts no network call and leaves the log, the input and
\* isProcessing as they are.
C11_OneCallInFlight ==
    /\ [](Len(fetchCh) <= 1)
    /\ [][(HandleSend /\ (isProcessing \/ ~booted))
            => UNCHANGED <<messages, input, isProcessing, fetchCh,
                           netCalls>>]_vars

\* a submission with text in the input was ignored while a reply was being
\* typed
C11_Witness ==
    /\ lastSend = [result |-> "ignored", blank |-> FALSE, idle |-> FALSE]
    /\ booted
    /\ isProcessing
    /\ typingId # NullId
    /\ Trim(input) # <<>>
    /\ netCalls = 1
    /\ fetchCh = <<>>

\* the outcome is an error: the call was rejected or the status is not 2xx
IsError(outcome) ==
    outcome.kind = "rejected" \/ outcome.status < 200 \/ outcome.status > 299

StatusText(st) ==
    CASE st = 400 -> <<"4", "0", "0">>
      [] st = 422 -> <<"4", "2", "2">>
      [] st = 500 -> <<"5", "0", "0">>
      [] st = 502 -> <<"5", "0", "2">>

\* the raw error message: the detail field when the body is JSON and holds
\* a non-empty string detail, else HTTP_<status>; for a rejected call the
\* message of the thrown error
RawError(outcome) ==
    IF outcome.kind = "rejected" THEN outcome.msg
    ELSE IF outcome.json /\ outcome.data.detailIsString
            /\ outcome.data.detail # <<>>
    THEN outcome.data.detail
    ELSE <<"H", "T", "T", "P", "_">> \o StatusText(outcome.status)

LastMessage == messages[Len(messages)]

\* an [ERR] line is the message being revealed
ErrorReplyPending ==
    /\ chMounted
    /\ typingId # NullId
    /\ Len(messages) > 0
    /\ LastMessage.id = typingId
    /\ StartsWith(LastMessage.content, <<"[", "E", "R", "R", "]", " ">>)

\* C12: when the chat call is rejected or answers with a status that is not
\* 2xx, the step of handleSend that follows appends exactly one message, of
\* role ai, whose content is "[ERR] " followed by the raw error message, and
\* makes it the message to reveal; while the component stays mounted the
\* typewriter then reveals it in full and the panel is idle again.
C12_ErrorLineThenIdle ==
    /\ [][\A outcome \in ChatOutcomes :
            (chMounted /\ IsError(outcome) /\ FetchSettlesWith(1, outcome))
              => /\ Len(messages') = Len(messages) + 1
                 /\ SubSeq(messages', 1, Len(messages)) = messages
                 /\ messages'[Len(messages')].role = "ai"
                 /\ messages'[Len(messages')].content
                      = <<"[", "E", "R", "R", "]", " ">> \o RawError(outcome)
                 /\ typingId' = messages'[Len(messages')].id
                 /\ pendingTextRef' = messages'[Len(messages')].content]_vars
    /\ ErrorReplyPending
         ~> (\/ ~chMounted
             \/ /\ ~isProcessing
                /\ typingId = NullId
                /\ Len(messages) > 0
                /\ typingText = LastMessage.content)

\* the panel is idle again after an [ERR] line built from a detail field
\* was revealed
C12_Witness ==
    /\ chMounted
    /\ ~isProcessing
    /\ typingId = NullId
    /\ Len(messages) = 6
    /\ LastMessage.role = "ai"
    /\ LastMessage.content = <<"[", "E", "R", "R", "]", " ", "n", "o">>
    /\ typingText = LastMessage.content

\* the state of the panel as the three flags give it
Phase(processing, typing) ==
    IF ~processing THEN "idle"
    ELSE IF typing = NullId THEN "awaiting-reply"
    ELSE "typing-reply"

PhaseOrder ==
    { <<"idle", "awaiting-reply">>, <<"awaiting-reply", "typing-reply">>,
      <<"typing-reply", "idle">> }

\* C16: while the panel is mounted its state changes only idle ->
\* awaiting-reply -> typing-reply -> idle; an accepted submission is the step
\* from idle to awaiting-reply; exactly one network call is in flight in
\* awaiting-reply and none otherwise; in typing-reply typingId is the id of
\* the last message, an ai message; isProcessing goes back to false only in
\* a step that leaves the whole text of that message revealed; and a panel
\* that is processing is idle again later unless it is unmounted first.
C16_StateOrderAndProgress ==
    /\ [][(chMounted /\ chMounted')
            => \/ Phase(isProcessing', typingId') = Phase(isProcessing, typingId)
               \/ <<Phase(isProcessing, typingId),
                    Phase(isProcessing', typingId')>> \in PhaseOrder]_vars
    /\ [][netCalls' # netCalls
            => /\ Phase(isProcessing, typingId) = "idle"
               /\ Phase(isProcessing', typingId') = "awaiting-reply"]_vars
    /\ [](chMounted =>
            Len(fetchCh) = (IF Phase(isProcessing, typingId) = "awaiting-reply"
                            THEN 1 ELSE 0))
    /\ [](Phase(isProcessing, typingId) = "typing-reply"
            => /\ LastMessage.role = "ai"
               /\ LastMessage.id = typingId)
    /\ [][(chMounted' /\ isProcessing /\ ~isProcessing')
            => /\ messages' = messages
               /\ typingText' = LastMessage.content]_vars
    /\ (chMounted /\ isProcessing) ~> (~chMounted \/ ~isProcessing)

\* two submissions went through all three states
C16_Witness ==
    /\ chMounted
    /\ netCalls = 2
    /\ Phase(isProcessing, typingId) = "idle"
    /\ Len(messages) = 8
    /\ typingText = LastMessage.content
    /\ fetchCh = <<>>

\* C17 as stated: once the chat panel is torn down no timer callback of it
\* runs: no boot message is appended, no typewriter, uptime or metrics tick
\* fires, and no delayed navigation happens.
C17_NoTimerCallbackAfterTeardown ==
    [][~chMounted
         => UNCHANGED <<messages, booted, typingText, typeIdx, uptime, metrics,
                        navigations>>]_vars

\* the first n messages of the log are the first n scripted boot messages,
\* of role system
BeginsWithBoot(n) ==
    /\ Len(messages) >= n
    /\ \A i \in 1..n :
        /\ messages[i].role = "system"
        /\ messages[i].content = << "boot" \o <<"1", "2", "3", "4">>[i] >>

SystemMessages == { i \in DOMAIN messages : messages[i].role = "system" }

\* C18: a mounted panel gets booted unless it is unmounted first; the system
\* messages of the log are the scripted boot messages in
\* order, each at most once and ahead of every other message; booted
\* becomes true in the step that appends the fourth of them; no submission
\* is accepted while booted is false; so whenever booted is true the log
\* begins with boot1, boot2, boot3, boot4.
C18_BootScriptThenInput ==
    /\ [](/\ Cardinality(SystemMessages) <= 4
          /\ BeginsWithBoot(Cardinality(SystemMessages)))
    /\ [](~booted => Len(messages) = Cardinality(SystemMessages))
    /\ [](booted => BeginsWithBoot(4))
    /\ [][(~booted /\ booted')
            => /\ Len(messages) = 3
               /\ messages' = Append(messages, messages'[4])
               /\ BeginsWithBoot(4)']_vars
    /\ [][(HandleSend /\ ~booted)
            => UNCHANGED <<messages, fetchCh, netCalls, isProcessing>>]_vars
    /\ chMounted ~> (booted \/ ~chMounted)

\* the boot has completed after a submission with text was turned down
\* during it
C18_Witness ==
    /\ chMounted
    /\ booted
    /\ Len(messages) = 4
    /\ netCalls = 0
    /\ lastSend = [result |-> "ignored", blank |-> FALSE, idle |-> FALSE]

IsPrefix(t, full) == Len(t) <= Len(full) /\ SubSeq(full, 1, Len(t)) = t

\* typingId is set only while the panel is processing
TypingImpliesProcessing == typingId # NullId => isProcessing

\* the revealed text is a prefix of the text to reveal
RevealedIsPrefix == IsPrefix(typingText, pendingTextRef)

\* a tick reveals exactly one more character
TickRevealsOne ==
    [][TypewriterTick => typingText' = SubSeq(pendingTextRef, 1, Len(typingText) + 1)]_vars

\* typingId and isProcessing are cleared in the same step, the tick with
\* which the revealed length reaches the full length
ClearedTogetherAtEnd ==
    [][chMounted'
         => /\ (typingId # NullId /\ typingId' = NullId)
                 <=> (isProcessing /\ ~isProcessing')
            /\ (isProcessing /\ ~isProcessing')
                 <=> (TypewriterTick /\ Len(typingText') = Len(pendingTextRef))]_vars

\* C20 as stated: in every reachable state typingId non-null implies
\* isProcessing, and the revealed typingText is a prefix of the pending full
\* text; each tick reveals exactly one more character; typingId and
\* isProcessing are cleared in the same step, exactly when the revealed
\* length reaches the full length.
C20_TypewriterInvariants ==
    /\ []TypingImpliesProcessing
    /\ []RevealedIsPrefix
    /\ TickRevealsOne
    /\ ClearedTogetherAtEnd

\* the messages of the conversation: the log without the boot script
Conversation == SelectSeq(messages, LAMBDA m : m.role # "system")

CountRole(role) ==
    Cardinality({ i \in DOMAIN messages : messages[i].role = role })

\* the conversation goes user, ai, user, ai, ...
Alternates ==
    \A i \in DOMAIN Conversation :
        Conversation[i].role = (IF i % 2 = 1 THEN "user" ELSE "ai")

\* a step of the mounted panel keeps every message of the log in place
AppendOnly ==
    [][(chMounted /\ chMounted') => IsPrefix(messages, messages')]_vars

\* an accepted submission appends one user message with the trimmed input
SubmissionAppendsUser ==
    [][(HandleSend /\ Trim(input) # <<>> /\ ~isProcessing /\ booted)
         => /\ Len(messages') = Len(messages) + 1
            /\ messages'[Len(messages')].role = "user"
            /\ messages'[Len(messages')].content = Trim(input)
            /\ IsPrefix(messages, messages')]_vars

\* a call that settles while the panel is mounted appends one ai message:
\* the reply or a line that begins with [ERR]
SettleAppendsAi ==
    [][(chMounted /\ Len(fetchCh') < Len(fetchCh))
         => /\ Len(messages') = Len(messages) + 1
            /\ IsPrefix(messages, messages')
            /\ messages'[Len(messages')].role = "ai"
            /\ \E outcome \in ChatOutcomes :
                 /\ messages'[Len(messages')].content = AiText(outcome)
                 /\ IsError(outcome)
                      => IsPrefix(Str_ERR, messages'[Len(messages')].content)]_vars

\* C21: while the panel is mounted the log is append-only; each accepted
\* submission appends exactly one user message holding the trimmed input,
\* followed, once the network call settles, by exactly one ai message (the
\* reply or an [ERR] line); after boot the log alternates user, ai and the
\* number of ai messages never exceeds the number of user messages.
C21_LogAppendOnlyAlternates ==
    /\ AppendOnly
    /\ SubmissionAppendsUser
    /\ SettleAppendsAi
    /\ [](chMounted => Alternates)
    /\ [](CountRole("ai") <= CountRole("user"))
    /\ [](CountRole("user") <= CountRole("ai") + 1)

\* two rounds are in the log: a trimmed submission answered by a reply, a
\* second one answered by an error line
C21_Witness ==
    /\ chMounted
    /\ Len(messages) = 8
    /\ messages[5].role = "user"
    /\ messages[5].content = <<"a", " ", "a">>
    /\ messages[6].role = "ai"
    /\ messages[6].content = <<"r">>
    /\ messages[7].role = "user"
    /\ messages[8].role = "ai"
    /\ IsPrefix(Str_ERR, messages[8].content)

(***************************************************************************)
(* Contact scene and CV modal specification                                *)
(***************************************************************************)
\* the state after the first render and its effects: the modal is closed,
\* its effect found open false and attached nothing
InitContact ==
    /\ ctMounted = TRUE
    /\ cvOpen = FALSE
    /\ copied = FALSE
    /\ exiting = FALSE
    /\ ctRenders = 1
    /\ listeners = {}
    /\ effectKey = 1
    /\ bodyOverflow = ""
    /\ copyPending = 0
    /\ copyTimers = 0
    /\ terminateTimers = 0
    /\ ctNavigations = 0
    /\ ctClicks = 0
    /\ lastClose = "none"
    /\ RouterParked
    /\ ProxyParked
    /\ SwapParked
    /\ ChatParked
    /\ I18nParked
    /\ StatusParked

\* mutant: the effect has no cleanup, a listener stays attached when the
\* effect runs again or the modal goes away
ModalEffectNoCleanup(attached, captured, handleKey, open) ==
    attached \cup (IF open THEN {handleKey} ELSE {})

\* the listeners on document after the cleanup of the last run of the
\* effect (removeEventListener of the handleKey it captured) and the new run
\* (addEventListener of the current handleKey if open)
ModalEffect(attached, captured, handleKey, open) ==
    (attached \ {captured}) \cup (IF open THEN {handleKey} ELSE {})

\* the scene renders again: onClose is a new arrow function, so handleKey is
\* a new callback and the effect of the modal runs again
Render(open) ==
    /\ ctRenders < MaxRenders
    /\ ctRenders' = ctRenders + 1
    /\ listeners' = ModalEffect(listeners, effectKey, ctRenders + 1, open)
    /\ effectKey' = ctRenders + 1
    /\ bodyOverflow' = (IF open THEN "hidden" ELSE "")

NoRender == UNCHANGED <<ctRenders, listeners, effectKey, bodyOverflow>>

\* onClick={() => setCvOpen(true)} on the CV card
OpenCv ==
    /\ ctMounted
    /\ ~cvOpen
    /\ cvOpen' = TRUE
    /\ Render(TRUE)
    /\ UNCHANGED <<ctMounted, copied, exiting, copyPending, copyTimers,
                   terminateTimers, ctNavigations, ctClicks, lastClose>>
    /\ UNCHANGED notContactVars

\* onClose(): setCvOpen(false)
Close(how) ==
    /\ ctMounted
    /\ cvOpen
    /\ cvOpen' = FALSE
    /\ Render(FALSE)
    /\ lastClose' = how
    /\ UNCHANGED <<ctMounted, copied, exiting, copyPending, copyTimers,
                   terminateTimers, ctNavigations, ctClicks>>
    /\ UNCHANGED notContactVars

\* a keydown of Escape reaches an attached listener: handleKey calls onClose
EscapeKey == listeners # {} /\ Close("escape")

\* <div className={styles.overlay} onClick={onClose}>
OverlayClick == Close("overlay")

\* <button onClick={onClose} className={styles.closeBtn}>
CloseButton == Close("button")

\* handleCopy up to its await: navigator.clipboard.writeText
HandleCopy ==
    /\ ctMounted
    /\ ctClicks < MaxClicks
    /\ copyPending' = copyPending + 1
    /\ ctClicks' = ctClicks + 1
    /\ NoRender
    /\ UNCHANGED <<ctMounted, cvOpen, copied, exiting, copyTimers,
                   terminateTimers, ctNavigations, lastClose>>
    /\ UNCHANGED notContactVars

\* the clipboard write settles: a rejection ends handleCopy; otherwise
\* setCopied(true); setTimeout(() => setCopied(false), 2000)
CopySettles ==
    /\ copyPending > 0
    /\ copyPending' = copyPending - 1
    /\ \E ok \in BOOLEAN :
        IF ~ok
        THEN NoRender /\ UNCHANGED <<copied, copyTimers>>
        ELSE /\ copyTimers' = copyTimers + 1
             /\ IF ctMounted /\ ~copied
                THEN copied' = TRUE /\ Render(cvOpen)
                ELSE NoRender /\ UNCHANGED copied
    /\ UNCHANGED <<ctMounted, cvOpen, exiting, terminateTimers, ctNavigations,
                   ctClicks, lastClose>>
    /\ UNCHANGED notContactVars

\* a timeout of handleCopy fires: setCopied(false). Nothing clears it.
CopiedTimeout ==
    /\ copyTimers > 0
    /\ copyTimers' = copyTimers - 1
    /\ IF ctMounted /\ copied
       THEN copied' = FALSE /\ Render(cvOpen)
       ELSE NoRender /\ UNCHANGED copied
    /\ UNCHANGED <<ctMounted, cvOpen, exiting, copyPending, terminateTimers,
                   ctNavigations, ctClicks, lastClose>>
    /\ UNCHANGED notContactVars

\* setExiting(true); setTimeout(() => router.push(`/${locale}`), 600)
HandleTerminate ==
    /\ ctMounted
    /\ ctClicks < MaxClicks
    /\ ctClicks' = ctClicks + 1
    /\ terminateTimers' = terminateTimers + 1
    /\ IF ~exiting
       THEN exiting' = TRUE /\ Render(cvOpen)
       ELSE NoRender /\ UNCHANGED exiting
    /\ UNCHANGED <<ctMounted, cvOpen, copied, copyPending, copyTimers,
                   ctNavigations, lastClose>>
    /\ UNCHANGED notContactVars

\* a timeout of handleTerminate fires: router.push. Nothing clears it.
TerminateTimeout ==
    /\ terminateTimers > 0
    /\ terminateTimers' = terminateTimers - 1
    /\ ctNavigations' = ctNavigations + 1
    /\ NoRender
    /\ UNCHANGED <<ctMounted, cvOpen, copied, exiting, copyPending,
                   copyTimers, ctClicks, lastClose>>
    /\ UNCHANGED notContactVars

\* the scene is torn down, and the modal with it: the cleanup of the
\* modal's effect runs and React discards the state of the instance
UnmountContact ==
    /\ ctMounted
    /\ ctMounted' = FALSE
    /\ listeners' = ModalEffect(listeners, effectKey, effectKey, FALSE)
    /\ bodyOverflow' = ""
    /\ lastClose' = (IF cvOpen THEN "unmount" ELSE lastClose)
    /\ cvOpen' = FALSE
    /\ copied' = FALSE
    /\ exiting' = FALSE
    /\ UNCHANGED <<ctRenders, effectKey, copyPending, copyTimers,
                   terminateTimers, ctNavigations, ctClicks>>
    /\ UNCHANGED notContactVars

NextContact ==
    \/ OpenCv
    \/ EscapeKey
    \/ OverlayClick
    \/ CloseButton
    \/ HandleCopy
    \/ CopySettles
    \/ CopiedTimeout
    \/ HandleTerminate
    \/ TerminateTimeout
    \/ UnmountContact

SpecContact == InitContact /\ [][NextContact]_vars

(***************************************************************************)
(* Contact scene and CV modal claims                                       *)
(***************************************************************************)
ModalIsOpen == ctMounted /\ cvOpen

\* C13: a keydown listener of the modal is attached to document, and page
\* scroll is suppressed, exactly while the modal is mounted and open; at
\* most one listener is attached at any time, and it is the handleKey of the
\* latest render; once the modal is closed (by Escape, the overlay or the
\* close button) or unmounted, nothing stays attached and scroll is restored.
C13_ModalResourcesScoped ==
    /\ Cardinality(listeners) <= 1
    /\ ModalIsOpen => listeners = {ctRenders}
    /\ ~ModalIsOpen => listeners = {}
    /\ bodyOverflow = (IF ModalIsOpen THEN "hidden" ELSE "")

\* the modal was closed by Escape after a render had replaced onClose
C13_Witness ==
    /\ ctMounted
    /\ ~cvOpen
    /\ lastClose = "escape"
    /\ copied
    /\ ctRenders = 4
    /\ listeners = {}
    /\ bodyOverflow = ""

(***************************************************************************)
(* Locale registry specification: isLocale on candidate strings            *)
(***************************************************************************)
LocaleAlphabet == { "f", "r", "e", "n", "F", "R", " " }

RECURSIVE StringsUpTo(_, _)
StringsUpTo(alphabet, n) ==
    IF n = 0 THEN { <<>> }
    ELSE LET S == StringsUpTo(alphabet, n - 1)
         IN  S \cup { Append(t, c) : t \in S, c \in alphabet }

Candidates == StringsUpTo(LocaleAlphabet, MaxCandidateLen)

InitIsLocale ==
    /\ locCandidate \in Candidates
    /\ locResult = FALSE
    /\ locPc = "ready"
    /\ moduleCache = [b \in Bundles |-> "absent"]
    /\ bundleLoads = [b \in Bundles |-> 0]
    /\ dictPending = <<>>
    /\ dictReturned = NoDictionary
    /\ dictCalls = 0
    /\ RouterParked
    /\ ProxyParked
    /\ SwapParked
    /\ ChatParked
    /\ ContactParked
    /\ StatusParked

\* isLocale(value)
IsLocaleCall ==
    /\ locPc = "ready"
    /\ locResult' = isLocale(locCandidate)
    /\ locPc' = "done"
    /\ UNCHANGED <<locCandidate, moduleCache, bundleLoads, dictPending,
                   dictReturned, dictCalls>>
    /\ UNCHANGED notI18nVars

\* the caller goes on to its next candidate: the last one with a character
\* added or taken away
NextCandidate ==
    /\ locPc = "done"
    /\ \/ /\ Len(locCandidate) < MaxCandidateLen
          /\ \E c \in LocaleAlphabet : locCandidate' = Append(locCandidate, c)
       \/ /\ Len(locCandidate) > 0
          /\ locCandidate' = SubSeq(locCandidate, 1, Len(locCandidate) - 1)
    /\ locPc' = "ready"
    /\ UNCHANGED <<locResult, moduleCache, bundleLoads, dictPending,
                   dictReturned, dictCalls>>
    /\ UNCHANGED notI18nVars

NextIsLocale == IsLocaleCall \/ NextCandidate

SpecIsLocale == InitIsLocale /\ [][NextIsLocale]_vars

\* C14: isLocale answers for every candidate string, the answer is true
\* exactly when the candidate is fr or en, character for character, and the
\* call changes nothing but its result.
C14_IsLocaleExactMembership ==
    /\ [](locPc = "ready" => ENABLED IsLocaleCall)
    /\ [](locPc = "done"
            => (locResult <=> locCandidate \in { <<"f", "r">>, <<"e", "n">> }))
    /\ [][IsLocaleCall => UNCHANGED <<locCandidate, notI18nVars>>]_vars

\* isLocale rejected a candidate that differs from a locale in case only
C14_Witness ==
    /\ locPc = "done"
    /\ locCandidate = <<"F", "R">>
    /\ locResult = FALSE

(***************************************************************************)
(* Dictionary loader specification                                         *)
(***************************************************************************)
\* mutant: both entries of the lookup table load the French bundle
dictionariesBothFr(locale) == "fr.json"

\* const dictionaries = { fr: () => import("./dictionaries/fr.json"), en: ... }
dictionaries(locale) == IF locale = Str_fr THEN "fr.json" ELSE "en.json"

\* (await import(bundle)).default: the content of the bundle
Default(bundle) == [bundle |-> bundle]

InitDictionary ==
    /\ locCandidate = <<>>
    /\ locResult = FALSE
    /\ locPc = "parked"
    /\ moduleCache = [b \in Bundles |-> "absent"]
    /\ bundleLoads = [b \in Bundles |-> 0]
    /\ dictPending = <<>>
    /\ dictReturned = NoDictionary
    /\ dictCalls = 0
    /\ RouterParked
    /\ ProxyParked
    /\ SwapParked
    /\ ChatParked
    /\ ContactParked
    /\ StatusParked

\* getDictionary(locale) up to its await: dictionaries[locale]() calls
\* import(), which starts a load only when the module system has no record
\* of the bundle
GetDictionary(locale) ==
    LET bundle == dictionaries(locale)
    IN  /\ dictCalls < MaxDictCalls
        /\ dictCalls' = dictCalls + 1
        /\ dictPending' = Append(dictPending, [asked |-> locale, bundle |-> bundle])
        /\ IF moduleCache[bundle] = "absent"
           THEN /\ moduleCache' = [moduleCache EXCEPT ![bundle] = "loading"]
                /\ bundleLoads' = [bundleLoads EXCEPT ![bundle] = @ + 1]
           ELSE UNCHANGED <<moduleCache, bundleLoads>>
        /\ UNCHANGED <<locCandidate, locResult, locPc, dictReturned>>
        /\ UNCHANGED notI18nVars

GetDictionaryCall == \E locale \in Locales : GetDictionary(locale)

\* the module system finishes loading a bundle
ModuleLoaded ==
    /\ \E bundle \in Bundles :
        /\ moduleCache[bundle] = "loading"
        /\ moduleCache' = [moduleCache EXCEPT ![bundle] = "loaded"]
    /\ UNCHANGED <<locCandidate, locResult, locPc, bundleLoads, dictPending,
                   dictReturned, dictCalls>>
    /\ UNCHANGED notI18nVars

\* the import of a pending call resolves and getDictionary returns
GetDictionaryReturns ==
    /\ \E i \in DOMAIN dictPending :
        /\ moduleCache[dictPending[i].bundle] = "loaded"
        /\ dictReturned' = [asked |-> dictPending[i].asked,
                            got |-> Default(dictPending[i].bundle)]
        /\ dictPending' = RemoveAt(dictPending, i)
    /\ UNCHANGED <<locCandidate, locResult, locPc, moduleCache, bundleLoads,
                   dictCalls>>
    /\ UNCHANGED notI18nVars

NextDictionary == GetDictionaryCall \/ ModuleLoaded \/ GetDictionaryReturns

SpecDictionary == InitDictionary /\ [][NextDictionary]_vars

\* the dictionary variant of a locale
VariantOf(locale) ==
    IF locale = <<"f", "r">> THEN [bundle |-> "fr.json"]
    ELSE [bundle |-> "en.json"]

JsonNull == [isNull |-> TRUE]

\* data.status throws a TypeError when data is null
PropertyThrows(v) == "isNull" \in DOMAIN v

\* data.status
StatusOf(v) == IF "status" \in DOMAIN v THEN v.status ELSE "undefined"

\* how fetch("/api/health") may settle in the browser
StatusOutcomes ==
    { Answer(st, JsonBody(v)) :
        st \in {200, 500, 502},
        v \in { [status |-> "ok"],
                [status |-> "error", reason |-> "backend_unreachable"],
                [detail |-> "boom"], JsonNull } }
    \cup { Answer(200, TextBody("<html></html>")),
           Answer(500, TextBody("Internal Server Error")),
           NetworkFailure }

\* one run of the effect: its cancelled flag and where its run() stands
EffectRun(c) == [cancelled |-> c, pc |-> "fetch", res |-> NoAnswer]

\* the state after the first render and its effect; in development React
\* runs the effect, its cleanup and the effect again on mount
InitStatus ==
    /\ bsMounted = TRUE
    /\ bsState = "loading"
    /\ bsRuns \in { <<EffectRun(FALSE)>>, <<EffectRun(TRUE), EffectRun(FALSE)>> }
    /\ bsSets = 0
    /\ RouterParked
    /\ ProxyParked
    /\ SwapParked
    /\ ChatParked
    /\ I18nParked
    /\ ContactParked

SetState(v) ==
    /\ bsState' = v
    /\ bsSets' = bsSets + 1

\* catch { if (cancelled) return; setState("error"); }
Catch(i, res) ==
    /\ bsRuns' = [bsRuns EXCEPT ![i].pc = "done", ![i].res = res]
    /\ IF bsRuns[i].cancelled THEN UNCHANGED <<bsState, bsSets>>
       ELSE SetState("error")

\* mutant: the HTTP status is not looked at
StateForIgnoresHttpStatus(res) ==
    IF StatusOf(JsonValue(res.body)) = "ok" THEN "ok" ELSE "error"

\* res.ok && data.status === "ok" ? "ok" : "error"
StateFor(res) ==
    IF ResOk(res.status) /\ StatusOf(JsonValue(res.body)) = "ok" THEN "ok"
    ELSE "error"

\* await fetch("/api/health") settles
StatusFetchSettles ==
    /\ \E i \in DOMAIN bsRuns, outcome \in StatusOutcomes :
        /\ bsRuns[i].pc = "fetch"
        /\ IF outcome.kind = "failure" THEN Catch(i, outcome)
           ELSE /\ bsRuns' = [bsRuns EXCEPT ![i].pc = "json", ![i].res = outcome]
                /\ UNCHANGED <<bsState, bsSets>>
    /\ UNCHANGED bsMounted
    /\ UNCHANGED notStatusVars

\* await res.json() settles and run() goes to its end
StatusJsonSettles ==
    /\ \E i \in DOMAIN bsRuns :
        /\ bsRuns[i].pc = "json"
        /\ LET res == bsRuns[i].res
           IN  IF JsonThrows(res.body) THEN Catch(i, res)
               ELSE IF bsRuns[i].cancelled
               THEN /\ bsRuns' = [bsRuns EXCEPT ![i].pc = "done"]
                    /\ UNCHANGED <<bsState, bsSets>>
               ELSE IF ResOk(res.status) /\ PropertyThrows(JsonValue(res.body))
               THEN Catch(i, res)
               ELSE /\ bsRuns' = [bsRuns EXCEPT ![i].pc = "done"]
                    /\ SetState(StateFor(res))
    /\ UNCHANGED bsMounted
    /\ UNCHANGED notStatusVars

\* the widget is torn down: the cleanup of the effect sets cancelled
UnmountStatus ==
    /\ bsMounted
    /\ bsMounted' = FALSE
    /\ bsRuns' = [i \in DOMAIN bsRuns |-> [bsRuns[i] EXCEPT !.cancelled = TRUE]]
    /\ UNCHANGED <<bsState, bsSets>>
    /\ UNCHANGED notStatusVars

NextStatus == StatusFetchSettles \/ StatusJsonSettles \/ UnmountStatus

SpecStatus == InitStatus /\ [][NextStatus]_vars

(***************************************************************************)
(* Backend status widget claims                                            *)
(***************************************************************************)
\* an answer with an OK HTTP status and a JSON body whose status is "ok"
IsOkAnswer(res) ==
    /\ res.kind = "answer"
    /\ res.status \in 200..299
    /\ res.body.json
    /\ "status" \in DOMAIN res.body.val
    /\ res.body.val.status = "ok"

\* the call of run i settles in this step
SettlesNow(i) == bsRuns[i].pc # "done" /\ bsRuns'[i].pc = "done"

\* C23: the state starts at loading, leaves loading at most once and never
\* returns to it; it becomes ok only when the /api/health response has an
\* OK HTTP status and a body with status "ok", and error in every other
\* settled case; when the widget is unmounted before the call settles the
\* state is never updated.
C23_StatusSettlesOnce ==
    /\ [](bsSets = 0 <=> bsState = "loading")
    /\ [](bsSets <= 1)
    /\ [][bsState # "loading" => bsState' = bsState]_vars
    /\ [](bsState = "ok"
            => \E i \in DOMAIN bsRuns :
                 bsRuns[i].pc = "done" /\ IsOkAnswer(bsRuns[i].res))
    /\ [][\A i \in DOMAIN bsRuns :
            (SettlesNow(i) /\ ~bsRuns[i].cancelled)
              => /\ bsState = "loading"
                 /\ bsState' = (IF IsOkAnswer(bsRuns'[i].res) THEN "ok"
                                ELSE "error")]_vars
    /\ [][~bsMounted => UNCHANGED <<bsState, bsSets>>]_vars

\* the effect ran twice on mount; the cancelled run got an ok answer and
\* changed nothing, the live run got status "ok" under HTTP 500: error
C23_Witness ==
    /\ bsMounted
    /\ Len(bsRuns) = 2
    /\ bsRuns[1].pc = "done"
    /\ IsOkAnswer(bsRuns[1].res)
    /\ bsRuns[2].pc = "done"
    /\ bsRuns[2].res = Answer(500, JsonBody([status |-> "ok"]))
    /\ bsState = "error"
    /\ bsSets = 1

====
